---- MODULE Spec2Model ----
(***************************************************************************)
(* Model of the NJIT schedule builder (src/app.py): catalogue loading at   *)
(* import time, the find_schedules generator, and the two request          *)
(* handlers index ("/") and api_solve ("/api/solve").                      *)
(***************************************************************************)
EXTENDS Integers, Sequences, FiniteSets, TLC

VARIABLES DATA_FILE, proc, SECTIONS, req, pc, courses, start_ok, end_ok,
          days_ok, ci, pools, idx, examined, count, yielded, exc, resp

vars == <<DATA_FILE, proc, SECTIONS, req, pc, courses, start_ok, end_ok,
          days_ok, ci, pools, idx, examined, count, yielded, exc, resp>>

(* ------------------------------ bounds --------------------------------- *)
MaxPool == 2        \* longest pool of course "A" in the generated files
MaxCourses == 2     \* longest requested course list
MaxCombos == 60     \* largest Cartesian product a modelled request may span

(* --------------------------- program constants ------------------------- *)
MAX_SOLNS == 50

Min(a, b) == IF a <= b THEN a ELSE b

(* --------------------------- "HH:MM" strings --------------------------- *)
\* A time string is modelled as the list of fields t.split(":") returns;
\* a field either parses with int() or does not.
Num(n) == [isInt |-> TRUE, val |-> n]
Junk == [isInt |-> FALSE, val |-> 0]
T(h, m) == <<Num(h), Num(m)>>

\* _mins raises ValueError when the split does not unpack into exactly two
\* fields or a field is not an integer literal.
MinsRaises(t) == Len(t) # 2 \/ \E i \in 1..Len(t) : ~t[i].isInt

_mins(t) == 60 * t[1].val + t[2].val

\* f"{x//60:02d}:{x%60:02d}"
HHMM(x) == T(x \div 60, x % 60)

(* ------------------------------ day tokens ----------------------------- *)
DayOrder == <<"F", "M", "R", "S", "T", "U", "W">>

\* set(s) for a string s given as its list of characters
CharSet(s) == {s[i] : i \in 1..Len(s)}

\* "".join(sorted(days))
SortedDays(days) == SelectSeq(DayOrder, LAMBDA d : d \in days)

\* str.upper() on the characters the model uses
Upper(ch) == CASE ch = "a" -> "A"
               [] ch = "b" -> "B"
               [] ch = "z" -> "Z"
               [] ch = "m" -> "M"
               [] ch = "t" -> "T"
               [] OTHER -> ch

UpperStr(s) == [i \in 1..Len(s) |-> Upper(s[i])]

(* ------------------------------- Section ------------------------------- *)
RequiredKeys == {"crn", "days", "start", "end"}

\* Section.__init__ : extra keys are swallowed by **_ignored
Section(course, d) ==
    [course |-> course, crn |-> d.crn, days |-> CharSet(d.days),
     start |-> _mins(d.start), end |-> _mins(d.end)]

\* Section(c, **d) raises TypeError on a missing required key and ValueError
\* from _mins on an unparsable time; nothing else is validated.
SectionRaises(d) ==
    \/ ~(RequiredKeys \subseteq d.keys)
    \/ MinsRaises(d.start)
    \/ MinsRaises(d.end)

ClashesMut(a, b) ==
    IF a.days \cap b.days = {} THEN FALSE
    ELSE a.start <= b.end /\ b.start <= a.end
\* Section.clashes : the set intersection is falsy when empty
Clashes(a, b) ==
    IF a.days \cap b.days = {} THEN FALSE
    ELSE a.start < b.end /\ b.start < a.end

to_dict(s) ==
    [course |-> s.course, crn |-> s.crn, days |-> SortedDays(s.days),
     start |-> HHMM(s.start), end |-> HHMM(s.end)]

(* ----------------------- all_sections.json contents -------------------- *)
Rec(crn, days, start, end) ==
    [keys |-> RequiredKeys \cup {"location"}, crn |-> crn, days |-> days,
     start |-> start, end |-> end]

BadTime == <<Num(9), Junk>>
RecNoEnd == [keys |-> {"crn", "days", "start", "location"}, crn |-> 7,
             days |-> <<"M">>, start |-> T(9, 0), end |-> T(0, 0)]

Records ==
    { Rec(1, <<"M">>, T(9, 0), T(9, 30)),
      Rec(2, <<"M">>, T(9, 30), T(10, 0)),
      Rec(3, <<"M", "T">>, T(9, 0), T(10, 0)),
      Rec(4, <<"T">>, T(9, 0), T(9, 30)),
      Rec(5, <<>>, T(9, 0), T(9, 30)),
      Rec(6, <<"M">>, T(9, 30), T(9, 30)),
      RecNoEnd,
      Rec(8, <<"M">>, BadTime, T(9, 30)) }

SeqsUpTo(S, n) == UNION {[1..k -> S] : k \in 0..n}

PoolB == <<Rec(21, <<"T">>, T(9, 0), T(9, 30)),
           Rec(22, <<"M">>, T(9, 30), T(10, 0))>>

MissingFile == [exists |-> FALSE, raw |-> <<>>]
FileOf(pa, pb) ==
    [exists |-> TRUE, raw |-> [c \in {"A", "B"} |-> IF c = "A" THEN pa ELSE pb]]

\* A catalogue large enough for a request to reach MAX_SOLNS: 5 sections
\* of "A" on Monday, 11 of "B" on Tuesday, the last one half an hour later.
BigFile ==
    FileOf([i \in 1..5 |-> Rec(100 + i, <<"M">>, T(9, 0), T(9, 30))],
           [i \in 1..11 |-> IF i <= 10
                            THEN Rec(200 + i, <<"T">>, T(9, 0), T(9, 30))
                            ELSE Rec(200 + i, <<"T">>, T(9, 30), T(10, 0))])

Files ==
    {MissingFile, BigFile} \cup {FileOf(pa, PoolB) : pa \in SeqsUpTo(Records, MaxPool)}

(* ------------------------------ requests -------------------------------- *)
CodeInputs == {"A", "b", "Z"}
CourseInputs == SeqsUpTo(CodeInputs, MaxCourses)
StartInputs == {T(9, 0), T(9, 30), BadTime}
EndInputs == {T(9, 30), T(10, 0), <<Num(10)>>}
DaysInputs == {<<>>, <<"m">>, <<"M", "T">>}

Requests(route) ==
    [route : {route}, method : {"POST"}, courses : CourseInputs,
     start : StartInputs, end : EndInputs, days : DaysInputs]

NoReq == [route |-> "none", method |-> "", courses |-> <<>>,
          start |-> <<>>, end |-> <<>>, days |-> <<>>]
GetReq == [route |-> "index", method |-> "GET", courses |-> <<>>,
           start |-> <<>>, end |-> <<>>, days |-> <<>>]

(* ------------------------------ exceptions ------------------------------ *)
NoExc == [type |-> "none", msg |-> "", arg |-> ""]
UnknownCourse(c) == [type |-> "ValueError", msg |-> "Unknown course", arg |-> c]
BadTimeError == [type |-> "ValueError", msg |-> "bad time", arg |-> ""]

(* ----------------------------- load_sections --------------------------- *)
LoadRaises(file) ==
    \E c \in DOMAIN file.raw : \E i \in 1..Len(file.raw[c]) :
        SectionRaises(file.raw[c][i])

Catalogue(file) ==
    [c \in DOMAIN file.raw |->
        [i \in 1..Len(file.raw[c]) |-> Section(c, file.raw[c][i])]]

\* SECTIONS = load_sections(), run once at import
load_sections ==
    /\ proc = "starting"
    /\ IF ~DATA_FILE.exists
         THEN /\ proc' = "exited"          \* sys.exit(...)
              /\ UNCHANGED SECTIONS
         ELSE IF LoadRaises(DATA_FILE)
         THEN /\ proc' = "crashed"         \* uncaught TypeError / ValueError
              /\ UNCHANGED SECTIONS
         ELSE /\ proc' = "serving"
              /\ SECTIONS' = Catalogue(DATA_FILE)
    /\ UNCHANGED <<DATA_FILE, req, pc, courses, start_ok, end_ok, days_ok,
                   ci, pools, idx, examined, count, yielded, exc, resp>>

(* ----------------------------- find_schedules -------------------------- *)
\* the section a combination holds at position i
SecAt(ps, combo, i) == ps[i][combo[i]]

\* any(sec.days - days_ok for sec in combo)
DaysReject(ps, combo, dok) ==
    \E i \in 1..Len(ps) : SecAt(ps, combo, i).days \ dok # {}

\* any(sec.start < start_ok or sec.end > end_ok for sec in combo)
TimeRejectMut(ps, combo, sok, eok) ==
    \E i \in 1..Len(ps) : SecAt(ps, combo, i).start < sok
TimeReject(ps, combo, sok, eok) ==
    \E i \in 1..Len(ps) :
        SecAt(ps, combo, i).start < sok \/ SecAt(ps, combo, i).end > eok

\* any(a.clashes(b) for a, b in itertools.combinations(combo, 2))
ClashRejectMut(ps, combo) ==
    \E i, j \in 1..Len(ps) :
        /\ i < j
        /\ SecAt(ps, combo, i).course # SecAt(ps, combo, j).course
        /\ Clashes(SecAt(ps, combo, i), SecAt(ps, combo, j))
ClashReject(ps, combo) ==
    \E i, j \in 1..Len(ps) :
        i < j /\ Clashes(SecAt(ps, combo, i), SecAt(ps, combo, j))

\* itertools.product: the rightmost wheel that can still turn is advanced
\* and every wheel to its right is reset; Exhausted when none can turn.
CanTurn(ps, combo) == {i \in 1..Len(ps) : combo[i] < Len(ps[i])}
Exhausted(ps, combo) == CanTurn(ps, combo) = {}
AdvanceMut(ps, combo) ==
    LET k == CHOOSE i \in CanTurn(ps, combo) :
                 \A j \in CanTurn(ps, combo) : j >= i
    IN [i \in 1..Len(ps) |-> IF i < k THEN 1
                             ELSE IF i = k THEN combo[i] + 1
                             ELSE combo[i]]
Advance(ps, combo) ==
    LET k == CHOOSE i \in CanTurn(ps, combo) :
                 \A j \in CanTurn(ps, combo) : j <= i
    IN [i \in 1..Len(ps) |-> IF i < k THEN combo[i]
                             ELSE IF i = k THEN combo[i] + 1
                             ELSE 1]

\* if count >= MAX_SOLNS: break
CapReached(n) == n >= MAX_SOLNS

\* lines 67-73: one turn of "for c in courses", then count = 0 and the
\* product is set up once the loop is over
ResolveMut ==
    /\ pc = "resolve"
    /\ IF ci > Len(courses)
         THEN /\ pc' = IF \E i \in 1..Len(pools) : Len(pools[i]) = 0
                       THEN "returned" ELSE "product"
              /\ idx' = [i \in 1..Len(pools) |-> 1]
              /\ count' = 0
              /\ UNCHANGED <<ci, pools, exc>>
         ELSE IF courses[ci] \notin DOMAIN SECTIONS
         THEN /\ ci' = ci + 1
              /\ UNCHANGED <<pc, pools, idx, count, exc>>
         ELSE /\ pools' = Append(pools, SECTIONS[courses[ci]])
              /\ ci' = ci + 1
              /\ UNCHANGED <<pc, idx, count, exc>>
    /\ UNCHANGED <<DATA_FILE, proc, SECTIONS, req, courses, start_ok, end_ok,
                   days_ok, examined, yielded, resp>>
Resolve ==
    /\ pc = "resolve"
    /\ IF ci > Len(courses)
         THEN /\ pc' = IF \E i \in 1..Len(pools) : Len(pools[i]) = 0
                       THEN "returned" ELSE "product"
              /\ idx' = [i \in 1..Len(pools) |-> 1]
              /\ count' = 0
              /\ UNCHANGED <<ci, pools, exc>>
         ELSE IF courses[ci] \notin DOMAIN SECTIONS
         THEN /\ exc' = UnknownCourse(courses[ci])
              /\ pc' = "raised"
              /\ UNCHANGED <<ci, pools, idx, count>>
         ELSE /\ pools' = Append(pools, SECTIONS[courses[ci]])
              /\ ci' = ci + 1
              /\ UNCHANGED <<pc, idx, count, exc>>
    /\ UNCHANGED <<DATA_FILE, proc, SECTIONS, req, courses, start_ok, end_ok,
                   days_ok, examined, yielded, resp>>

\* lines 74-84: one turn of "for combo in itertools.product(*pools)"
Step ==
    /\ pc = "product"
    /\ examined' = examined + 1
    /\ LET rejected == \/ DaysReject(pools, idx, days_ok)
                       \/ TimeReject(pools, idx, start_ok, end_ok)
                       \/ ClashReject(pools, idx)
           capped == ~rejected /\ CapReached(count + 1)
       IN /\ yielded' = IF rejected THEN yielded ELSE Append(yielded, idx)
          /\ count' = IF rejected THEN count ELSE count + 1
          /\ IF capped \/ Exhausted(pools, idx)
               THEN pc' = "returned" /\ UNCHANGED idx
               ELSE pc' = "product" /\ idx' = Advance(pools, idx)
    /\ UNCHANGED <<DATA_FILE, proc, SECTIONS, req, courses, start_ok, end_ok,
                   days_ok, ci, pools, exc, resp>>

(* ------------------------------- responses ------------------------------ *)
NoResp == [route |-> "none", status |-> 0, error |-> "", uncaught |-> FALSE,
           listed |-> FALSE, schedules |-> <<>>, truncated |-> FALSE]

\* TEMPLATE line 199: "(showing first N)" is printed when the list is N long
TruncatedMut(schedules, max_solns) == Len(schedules) > max_solns
Truncated(schedules, max_solns) == Len(schedules) = max_solns

\* render_template_string(TEMPLATE, schedules=..., max_solns=MAX_SOLNS);
\* listed is "schedules is not none"
render_template(listed, schedules) ==
    [route |-> "index", status |-> 200, error |-> "", uncaught |-> FALSE,
     listed |-> listed, schedules |-> schedules,
     truncated |-> listed /\ Truncated(schedules, MAX_SOLNS)]

\* lines 228-235: one text block per schedule, one line per section
RenderLine(sec) ==
    [course |-> sec.course, crn |-> sec.crn, days |-> SortedDays(sec.days),
     start |-> HHMM(sec.start), end |-> HHMM(sec.end)]
Rendered(ps, ys) ==
    [k \in 1..Len(ys) |->
        [text |-> [i \in 1..Len(ps) |-> RenderLine(SecAt(ps, ys[k], i))]]]

\* lines 253-254
Solutions(ps, ys) ==
    [k \in 1..Len(ys) |-> [i \in 1..Len(ps) |-> to_dict(SecAt(ps, ys[k], i))]]

jsonify(status, error, listed, schedules) ==
    [route |-> "api", status |-> status, error |-> error, uncaught |-> FALSE,
     listed |-> listed, schedules |-> schedules, truncated |-> FALSE]

\* the exception leaves the view function; the framework answers 500
Unhandled(route) ==
    [route |-> route, status |-> 500, error |-> "", uncaught |-> TRUE,
     listed |-> FALSE, schedules |-> <<>>, truncated |-> FALSE]

(* ------------------------------- handlers ------------------------------- *)
RECURSIVE ProductSize(_)
ProductSize(cs) ==
    IF cs = <<>> THEN 1
    ELSE (IF Head(cs) \in DOMAIN SECTIONS THEN Len(SECTIONS[Head(cs)]) ELSE 1)
         * ProductSize(Tail(cs))

Modelled(r) ==
    /\ Len(r.courses) <= MaxCourses
    /\ ProductSize(UpperStr(r.courses)) <= MaxCombos

\* the request's locals before find_schedules is entered
Enter(r) ==
    /\ req' = r
    /\ ci' = 1
    /\ pools' = <<>>
    /\ idx' = <<>>
    /\ examined' = 0
    /\ count' = 0
    /\ yielded' = <<>>
    /\ exc' = NoExc

ParseRaises(r) == MinsRaises(r.start) \/ MinsRaises(r.end)

Parse(r) ==
    /\ courses' = UpperStr(r.courses)
    /\ start_ok' = _mins(r.start)
    /\ end_ok' = _mins(r.end)
    /\ days_ok' = CharSet(UpperStr(r.days))

\* index(), GET: nothing is solved, the bare form is rendered
IndexGet ==
    /\ proc = "serving" /\ pc = "idle"
    /\ Enter(GetReq)
    /\ resp' = render_template(FALSE, <<>>)
    /\ pc' = "done"
    /\ UNCHANGED <<DATA_FILE, proc, SECTIONS, courses, start_ok, end_ok,
                   days_ok>>

\* index(), POST, lines 222-227: parse the form; a ValueError from _mins is
\* caught by line 236 at once, otherwise find_schedules is drained by list()
IndexPost ==
    /\ proc = "serving" /\ pc = "idle"
    /\ \E r \in Requests("index") :
        /\ Modelled(r)
        /\ Enter(r)
        /\ IF ParseRaises(r)
             THEN /\ resp' = render_template(TRUE, <<[text |-> BadTimeError]>>)
                  /\ pc' = "done"
                  /\ UNCHANGED <<courses, start_ok, end_ok, days_ok>>
             ELSE /\ Parse(r)
                  /\ pc' = "resolve"
                  /\ resp' = NoResp
    /\ UNCHANGED <<DATA_FILE, proc, SECTIONS>>

\* index(), lines 228-238: render the drained list, or the message of the
\* ValueError that find_schedules raised
IndexFinish ==
    /\ req.route = "index" /\ pc \in {"returned", "raised"}
    /\ resp' = IF pc = "raised"
               THEN render_template(TRUE, <<[text |-> exc]>>)
               ELSE render_template(TRUE, Rendered(pools, yielded))
    /\ pc' = "done"
    /\ UNCHANGED <<DATA_FILE, proc, SECTIONS, req, courses, start_ok, end_ok,
                   days_ok, ci, pools, idx, examined, count, yielded, exc>>

\* api_solve(), lines 244-251
ApiSolve ==
    /\ proc = "serving" /\ pc = "idle"
    /\ \E r \in Requests("api") :
        /\ Modelled(r)
        /\ Enter(r)
        /\ IF ParseRaises(r)
             THEN /\ resp' = jsonify(400, "malformed-request", FALSE, <<>>)
                  /\ pc' = "done"
                  /\ UNCHANGED <<courses, start_ok, end_ok, days_ok>>
             ELSE /\ Parse(r)
                  /\ pc' = "resolve"
                  /\ resp' = NoResp
    /\ UNCHANGED <<DATA_FILE, proc, SECTIONS>>

\* api_solve(), lines 253-257
ApiFinish ==
    /\ req.route = "api" /\ pc = "returned"
    /\ resp' = IF Solutions(pools, yielded) # <<>>
               THEN jsonify(200, "", TRUE, Solutions(pools, yielded))
               ELSE jsonify(404, "no-schedule", FALSE, <<>>)
    /\ pc' = "done"
    /\ UNCHANGED <<DATA_FILE, proc, SECTIONS, req, courses, start_ok, end_ok,
                   days_ok, ci, pools, idx, examined, count, yielded, exc>>

\* api_solve(), line 254 sits outside the try block: a ValueError raised
\* by find_schedules is not caught by the handler
ApiRaise ==
    /\ req.route = "api" /\ pc = "raised"
    /\ resp' = Unhandled("api")
    /\ pc' = "done"
    /\ UNCHANGED <<DATA_FILE, proc, SECTIONS, req, courses, start_ok, end_ok,
                   days_ok, ci, pools, idx, examined, count, yielded, exc>>

\* the view function has returned: the response is sent and the locals of
\* the request are gone
Return ==
    /\ pc = "done"
    /\ pc' = "idle"
    /\ req' = NoReq
    /\ courses' = <<>>
    /\ start_ok' = 0
    /\ end_ok' = 0
    /\ days_ok' = {}
    /\ ci' = 1
    /\ pools' = <<>>
    /\ idx' = <<>>
    /\ examined' = 0
    /\ count' = 0
    /\ yielded' = <<>>
    /\ exc' = NoExc
    /\ resp' = NoResp
    /\ UNCHANGED <<DATA_FILE, proc, SECTIONS>>

(* ---------------------------- specification ----------------------------- *)
Init ==
    /\ DATA_FILE \in Files
    /\ proc = "starting"
    /\ SECTIONS = <<>>
    /\ req = NoReq
    /\ pc = "idle"
    /\ courses = <<>>
    /\ start_ok = 0
    /\ end_ok = 0
    /\ days_ok = {}
    /\ ci = 1
    /\ pools = <<>>
    /\ idx = <<>>
    /\ examined = 0
    /\ count = 0
    /\ yielded = <<>>
    /\ exc = NoExc
    /\ resp = NoResp

Next ==
    \/ load_sections
    \/ IndexGet
    \/ IndexPost
    \/ IndexFinish
    \/ ApiSolve
    \/ ApiFinish
    \/ ApiRaise
    \/ Resolve
    \/ Step
    \/ Return

Spec == Init /\ [][Next]_vars

(* ------------------- reference notions used by the properties ---------- *)
\* two sections clash iff they share a day and their half-open intervals
\* overlap
Overlap(a, b) ==
    /\ \E d \in a.days : d \in b.days
    /\ a.start < b.end
    /\ b.start < a.end

\* the three constraints on a combination
Satisfies(ps, combo) ==
    /\ \A i \in 1..Len(ps) :
        /\ SecAt(ps, combo, i).days \subseteq days_ok
        /\ start_ok <= SecAt(ps, combo, i).start
        /\ SecAt(ps, combo, i).end <= end_ok
    /\ \A i, j \in 1..Len(ps) :
        i # j => ~Overlap(SecAt(ps, combo, i), SecAt(ps, combo, j))

RECURSIVE Weight(_, _)
Weight(ps, i) == IF i >= Len(ps) THEN 1 ELSE Len(ps[i + 1]) * Weight(ps, i + 1)

\* the Cartesian product in odometer order: the n-th combination is n-1
\* written in the mixed radix of the pool lengths, first pool most significant
NthCombo(ps, n) ==
    [i \in 1..Len(ps) |-> (((n - 1) \div Weight(ps, i)) % Len(ps[i])) + 1]
LexProduct(ps) == [n \in 1..Weight(ps, 0) |-> NthCombo(ps, n)]
ValidList == SelectSeq(LexProduct(pools), LAMBDA c : Satisfies(pools, c))

Prefix(s, t) == Len(s) <= Len(t) /\ s = SubSeq(t, 1, Len(s))

AllSections ==
    UNION {{SECTIONS[c][i] : i \in 1..Len(SECTIONS[c])} : c \in DOMAIN SECTIONS}

Unknown == {i \in 1..Len(courses) : courses[i] \notin DOMAIN SECTIONS}
Parsed == req.method = "POST" /\ ~ParseRaises(req)
Solved == pc = "done" /\ Parsed /\ exc = NoExc

(* ------------------------------ properties ------------------------------ *)
\* C1: every yielded schedule holds exactly one section per requested
\* course, in input order, each within the allowed days and the time window,
\* and no two of its sections at different positions clash.
C1_SchedulesValid ==
    \A k \in 1..Len(yielded) :
        /\ Len(yielded[k]) = Len(courses)
        /\ \A i \in 1..Len(courses) :
            /\ yielded[k][i] \in 1..Len(SECTIONS[courses[i]])
            /\ SecAt(pools, yielded[k], i) = SECTIONS[courses[i]][yielded[k][i]]
            /\ SecAt(pools, yielded[k], i).course = courses[i]
        /\ Satisfies(pools, yielded[k])

C1_Witness ==
    /\ pc = "returned"
    /\ Len(courses) = 2
    /\ Len(yielded) >= 1
    /\ examined > Len(yielded)

\* C2: the yielded sequence is the first min(M, cap) valid combinations of
\* the product in odometer order (first pool slowest), none skipped and none
\* repeated; while the product is still being walked it is a prefix of it.
C2_LexOrderPrefix ==
    /\ pc = "product" => Prefix(yielded, ValidList)
    /\ pc = "returned" =>
        yielded = SubSeq(ValidList, 1, Min(Len(ValidList), MAX_SOLNS))

C2_Witness ==
    /\ pc = "returned"
    /\ Len(pools) = 2
    /\ Len(yielded) >= 2
    /\ yielded[1][1] # yielded[Len(yielded)][1]
    /\ examined > Len(yielded)

\* C3 (as stated): M > cap gives exactly cap schedules and the truncation
\* flag; M <= cap, M = cap included, gives all M and no flag.
C3_CapAsStated ==
    (Solved /\ req.route = "index") =>
        /\ Len(ValidList) > MAX_SOLNS =>
            Len(resp.schedules) = MAX_SOLNS /\ resp.truncated
        /\ Len(ValidList) <= MAX_SOLNS =>
            Len(resp.schedules) = Len(ValidList) /\ ~resp.truncated

\* C3 (amended): M >= cap gives exactly cap schedules and the truncation
\* flag; M < cap gives all M and no flag.
C3_CapAmended ==
    (Solved /\ req.route = "index") =>
        /\ Len(ValidList) >= MAX_SOLNS =>
            Len(resp.schedules) = MAX_SOLNS /\ resp.truncated
        /\ Len(ValidList) < MAX_SOLNS =>
            Len(resp.schedules) = Len(ValidList) /\ ~resp.truncated

C3_Witness ==
    /\ Solved /\ req.route = "index"
    /\ Len(ValidList) > MAX_SOLNS
    /\ resp.truncated

\* C4: when a requested code is absent from the catalogue the enumeration
\* raises the unknown-course error naming the first absent code in input
\* order before any combination is examined, and nothing is yielded.
C4_UnknownCourseFirst ==
    (req.method = "POST" /\ ~ParseRaises(req) /\ Unknown # {}) =>
        /\ examined = 0
        /\ yielded = <<>>
        /\ pc \in {"resolve", "raised", "done"}
        /\ pc \in {"raised", "done"} =>
            /\ exc.type = "ValueError" /\ exc.msg = "Unknown course"
            /\ \E i \in Unknown :
                /\ exc.arg = courses[i]
                /\ \A j \in Unknown : i <= j

C4_Witness ==
    /\ pc = "raised"
    /\ Len(courses) = 2
    /\ Unknown = {2}

\* C5: on both routes an unknown-course or invalid-constraint error is
\* caught by the handler; none leaves it uncaught.
C5_ErrorsCaught ==
    (pc = "done" /\ req.method = "POST" /\ (ParseRaises(req) \/ exc # NoExc)) =>
        ~resp.uncaught

\* C6: a request that completes with zero schedules answers with an empty
\* successful list and no error code, and a request in error is never
\* answered with a list of schedules.
C6_NoSolutionNotError ==
    /\ (Solved /\ yielded = <<>>) =>
        /\ resp.status = 200
        /\ resp.error = ""
        /\ resp.listed /\ resp.schedules = <<>>
    /\ (pc = "done" /\ req.method = "POST" /\ (ParseRaises(req) \/ exc # NoExc)) =>
        ~resp.listed

\* C7: a request with earliest >= latest, an empty allowed-day set or a
\* malformed time string is rejected before any combination is examined and
\* is not answered as a no-solution outcome.
InvalidConstraint(r) ==
    \/ ParseRaises(r)
    \/ r.days = <<>>
    \/ _mins(r.start) >= _mins(r.end)

C7_InvalidConstraintRejected ==
    (req.method = "POST" /\ InvalidConstraint(req)) =>
        /\ examined = 0
        /\ pc \notin {"product", "returned"}

\* C8: clashes is true exactly when the day sets meet and the half-open
\* intervals overlap, so it is symmetric and a section ending at T never
\* clashes with one starting at T.
C8_ClashPredicate ==
    \A a, b \in AllSections :
        /\ Clashes(a, b) <=> Overlap(a, b)
        /\ Clashes(a, b) = Clashes(b, a)
        /\ a.end = b.start => ~Clashes(a, b)

C8_Witness ==
    /\ pc = "returned" /\ Len(pools) = 2 /\ examined > 0
    /\ \E a, b \in AllSections :
        a.end = b.start /\ a.days \cap b.days # {} /\ a.start < a.end
    /\ \E a, b \in AllSections : Clashes(a, b) /\ a # b

\* C9: loading fails when the source is missing or a record is malformed
\* (missing field, unparsable time, start >= end), so every section of a
\* loaded catalogue has start < end.
C9_LoadRejectsMalformed ==
    proc = "serving" =>
        /\ DATA_FILE.exists
        /\ ~LoadRaises(DATA_FILE)
        /\ \A s \in AllSections : s.start < s.end

\* C10 (as stated): with a course code requested twice, the two slots of a
\* yielded schedule hold two different, mutually non-clashing sections.
C10_DuplicateAsStated ==
    \A k \in 1..Len(yielded) : \A i, j \in 1..Len(courses) :
        (i < j /\ courses[i] = courses[j]) =>
            /\ yielded[k][i] # yielded[k][j]
            /\ ~Overlap(SecAt(pools, yielded[k], i), SecAt(pools, yielded[k], j))

\* C10 (amended): with a course code requested twice, the two slots of a
\* yielded schedule hold mutually non-clashing sections, and one section
\* fills both slots only when its day set is empty or its start is not
\* before its end.
C10_DuplicateAmended ==
    \A k \in 1..Len(yielded) : \A i, j \in 1..Len(courses) :
        (i < j /\ courses[i] = courses[j]) =>
            /\ ~Overlap(SecAt(pools, yielded[k], i), SecAt(pools, yielded[k], j))
            /\ yielded[k][i] = yielded[k][j] =>
                \/ SecAt(pools, yielded[k], i).days = {}
                \/ SecAt(pools, yielded[k], i).start >= SecAt(pools, yielded[k], i).end

C10_Witness ==
    /\ pc = "returned"
    /\ Len(courses) = 2 /\ courses[1] = courses[2]
    /\ \E k \in 1..Len(yielded) :
        /\ yielded[k][1] # yielded[k][2]
        /\ SecAt(pools, yielded[k], 1).days # {}
        /\ SecAt(pools, yielded[k], 2).days # {}

====
